---- MODULE Spec2Model ----
(***************************************************************************)
(* A model of exercise.py: the EC2 inventory run (main), the per-region    *)
(* paginated collection (get_instances), the record normalisation          *)
(* (get_instance_data), the shared column widths and the table renderer    *)
(* (print_table).                                                          *)
(*                                                                         *)
(* Python values that can have more than one type are records tagged by   *)
(* their type: None, Str(s), datetimes and Lst(items).  Python strings are *)
(* TLA+ strings; dictionaries are functions whose DOMAIN is the key set.   *)
(***************************************************************************)
EXTENDS Integers, Sequences, FiniteSets, TLC

(***************************************************************************)
(* Bounds of the model.                                                    *)
(***************************************************************************)
\* most page requests issued within one region (the fetch loop of the
\* source has no bound of its own)
MaxRequests == 3

(***************************************************************************)
(* Program constants.                                                      *)
(***************************************************************************)
COLUMN_MARGIN == 2
BANNER_WIDTH == 80
DEFAULT_ATTRIBUTES == "InstanceId,InstanceType,LaunchTime"
DEFAULT_TAG == "Owner"
NO_ATTRIBUTE_KEY == "(no attribute key)"
NO_VALUE_KEY == "(no value key)"
UNKNOWN == "unknown"

(***************************************************************************)
(* Python values.                                                          *)
(***************************************************************************)
None == [type |-> "NoneType"]
Str(s) == [type |-> "str", s |-> s]
Lst(items) == [type |-> "list", items |-> items]
DateTime(y, mo, d, h, mi, sec) ==
    [type |-> "datetime", year |-> y, month |-> mo, day |-> d,
     hour |-> h, minute |-> mi, second |-> sec]

\* dict.get(key, default)
Get(dict, key, default) == IF key \in DOMAIN dict THEN dict[key] ELSE default

\* dict[key] = value
Put(dict, key, value) == (key :> value) @@ dict

EmptyDict == <<>>

(***************************************************************************)
(* Python string operations.                                               *)
(***************************************************************************)
\* the printable ASCII characters in code-point order: 32 (space) to 95, and
\* 97 to 126 (96, the backquote, cannot be written in a TLA+ string)
PrintableLow ==
    " !\"#$%&'()*+,-./0123456789:;<=>?@ABCDEFGHIJKLMNOPQRSTUVWXYZ[\\]^_"
PrintableHigh == "abcdefghijklmnopqrstuvwxyz{|}~"

IndexIn(s, c) == CHOOSE i \in 1..Len(s) : SubSeq(s, i, i) = c

\* ord(c) of a one-character string
Ord(c) ==
    IF \E i \in 1..Len(PrintableLow) : SubSeq(PrintableLow, i, i) = c
    THEN 31 + IndexIn(PrintableLow, c)
    ELSE 96 + IndexIn(PrintableHigh, c)

\* a < b on str: lexicographic by code point, a proper prefix is smaller
RECURSIVE StrLess(_, _)
StrLess(a, b) ==
    IF b = "" THEN FALSE
    ELSE IF a = "" THEN TRUE
    ELSE IF Head(a) = Head(b) THEN StrLess(Tail(a), Tail(b))
    ELSE Ord(Head(a)) < Ord(Head(b))

\* c * n
RECURSIVE Repeat(_, _)
Repeat(c, n) == IF n <= 0 THEN "" ELSE c \o Repeat(c, n - 1)

\* s.rjust(width)
ljust_right(s, width) ==
    IF Len(s) >= width THEN s ELSE Repeat(" ", width - Len(s)) \o s

\* s.ljust(width)
ljust(s, width) ==
    IF Len(s) >= width THEN s ELSE s \o Repeat(" ", width - Len(s))

\* position of the first comma of s, 0 when there is none
FirstComma(s) ==
    IF \E i \in 1..Len(s) : SubSeq(s, i, i) = ","
    THEN CHOOSE i \in 1..Len(s) :
            /\ SubSeq(s, i, i) = ","
            /\ \A j \in 1..(i - 1) : SubSeq(s, j, j) # ","
    ELSE 0

\* s.split(',')
RECURSIVE split(_)
split(s) ==
    LET i == FirstComma(s) IN
    IF i = 0 THEN <<s>>
    ELSE <<SubSeq(s, 1, i - 1)>> \o split(SubSeq(s, i + 1, Len(s)))

Digits == "0123456789"

\* str(n) of a non-negative int
RECURSIVE str(_)
str(n) ==
    IF n < 10 THEN SubSeq(Digits, n + 1, n + 1)
    ELSE str(n \div 10) \o SubSeq(Digits, (n % 10) + 1, (n % 10) + 1)

\* "%0<width>d" % n
ZeroPad(n, width) ==
    IF Len(str(n)) >= width THEN str(n)
    ELSE Repeat("0", width - Len(str(n))) \o str(n)

\* "%<width>d" % n
SpacePad(n, width) ==
    IF Len(str(n)) >= width THEN str(n)
    ELSE Repeat(" ", width - Len(str(n))) \o str(n)

(***************************************************************************)
(* datetime.ctime()                                                        *)
(***************************************************************************)
DAYNAMES == <<"Mon", "Tue", "Wed", "Thu", "Fri", "Sat", "Sun">>
MONTHNAMES == <<"Jan", "Feb", "Mar", "Apr", "May", "Jun",
                "Jul", "Aug", "Sep", "Oct", "Nov", "Dec">>
DAYS_IN_MONTH == <<31, 28, 31, 30, 31, 30, 31, 31, 30, 31, 30, 31>>

IsLeap(y) == (y % 4 = 0) /\ ((y % 100 # 0) \/ (y % 400 = 0))

DaysBeforeYear(y) ==
    LET p == y - 1 IN (p * 365) + (p \div 4) - (p \div 100) + (p \div 400)

RECURSIVE DaysBeforeMonth(_, _)
DaysBeforeMonth(y, m) ==
    IF m <= 1 THEN 0
    ELSE DaysBeforeMonth(y, m - 1) + DAYS_IN_MONTH[m - 1]
         + (IF m - 1 = 2 /\ IsLeap(y) THEN 1 ELSE 0)

ToOrdinal(dt) == DaysBeforeYear(dt.year) + DaysBeforeMonth(dt.year, dt.month) + dt.day

ctime(dt) ==
    LET w == ToOrdinal(dt) % 7
        weekday == IF w = 0 THEN 7 ELSE w
    IN DAYNAMES[weekday] \o " " \o MONTHNAMES[dt.month] \o " "
       \o SpacePad(dt.day, 2) \o " "
       \o ZeroPad(dt.hour, 2) \o ":" \o ZeroPad(dt.minute, 2) \o ":"
       \o ZeroPad(dt.second, 2) \o " " \o ZeroPad(dt.year, 4)

(***************************************************************************)
(* get_instance_data: one raw instance to one record, with the side effect *)
(* on the column widths.  A raw instance is None or Dict(fields).          *)
(***************************************************************************)
Dict(fields) == [type |-> "dict", fields |-> fields]

\* get_width: the lookup fails (fail(), exit 1) for an untracked column
get_width_fails(widths, column_name) == column_name \notin DOMAIN widths

get_width(widths, column_name) == widths[column_name]

\* a lookup that fills a missing attribute like a missing tag
AttributeValue_unknown(fields, attribute) ==
    LET v == Get(fields, attribute, Str(UNKNOWN)) IN
    IF v.type = "datetime" THEN ctime(v) ELSE v.s

\* the value stored for one attribute
AttributeValue(fields, attribute) ==
    LET v == Get(fields, attribute, Str(NO_ATTRIBUTE_KEY)) IN
    IF v.type = "datetime" THEN ctime(v) ELSE v.s

\* an update that tracks the margin together with the length
UpdateWidth_padded(widths, column, value) ==
    IF Len(value) > get_width(widths, column)
    THEN Put(widths, column, Len(value) + COLUMN_MARGIN)
    ELSE widths

\* a tracker that takes the width of the latest value
UpdateWidth_latest(widths, column, value) == Put(widths, column, Len(value))

\* the width of a column after a value of that column was seen
UpdateWidth(widths, column, value) ==
    IF Len(value) > get_width(widths, column)
    THEN Put(widths, column, Len(value))
    ELSE widths

\* the loop over ATTRIBUTES_TO_SHOW; st = [item, widths, fatal]
RECURSIVE AttributeLoop(_, _, _)
AttributeLoop(fields, attributes, st) ==
    IF attributes = <<>> \/ st.fatal THEN st
    ELSE LET attribute == Head(attributes)
             value == AttributeValue(fields, attribute)
             item == Put(st.item, attribute, value)
         IN IF get_width_fails(st.widths, attribute)
            THEN [item |-> item, widths |-> st.widths, fatal |-> TRUE]
            ELSE AttributeLoop(fields, Tail(attributes),
                     [item |-> item,
                      widths |-> UpdateWidth(st.widths, attribute, value),
                      fatal |-> FALSE])

\* a tag loop that stores every tag under its own key
RECURSIVE TagLoop_every(_, _, _)
TagLoop_every(tags, item, tag_to_show) ==
    IF tags = <<>> THEN item
    ELSE LET tag == Head(tags)
             stored == IF "Key" \in DOMAIN tag
                       THEN Put(item, tag["Key"], Get(tag, "Value", NO_VALUE_KEY))
                       ELSE item
         IN TagLoop_every(Tail(tags), stored, tag_to_show)

\* the loop over the instance's Tags: every entry whose Key is the tag to
\* show stores its Value, a later entry overwriting an earlier one
RECURSIVE TagLoop(_, _, _)
TagLoop(tags, item, tag_to_show) ==
    IF tags = <<>> THEN item
    ELSE LET tag == Head(tags)
             stored == IF "Key" \in DOMAIN tag /\ tag["Key"] = tag_to_show
                       THEN Put(item, tag_to_show, Get(tag, "Value", NO_VALUE_KEY))
                       ELSE item
         IN TagLoop(Tail(tags), stored, tag_to_show)

\* a fill that overwrites whatever the tag loop stored
FillUnknown_always(item, tag_to_show) == Put(item, tag_to_show, UNKNOWN)

\* the item after the tag loop: 'unknown' when the key is still missing
FillUnknown(item, tag_to_show) ==
    IF tag_to_show \notin DOMAIN item
    THEN Put(item, tag_to_show, UNKNOWN)
    ELSE item

\* the result [ret, widths, fatal]: ret is the value returned (None for a
\* None instance), widths the column widths afterwards, fatal whether
\* get_width called fail()
get_instance_data(instance, attributes, tag_to_show, widths) ==
    IF instance = None
    THEN [ret |-> None, widths |-> widths, fatal |-> FALSE]
    ELSE LET a == AttributeLoop(instance.fields, attributes,
                      [item |-> EmptyDict, widths |-> widths, fatal |-> FALSE])
             tags == Get(instance.fields, "Tags", Lst(<<>>)).items
             item == FillUnknown(TagLoop(tags, a.item, tag_to_show), tag_to_show)
         IN IF a.fatal \/ get_width_fails(a.widths, tag_to_show)
            THEN [ret |-> None, widths |-> a.widths, fatal |-> TRUE]
            ELSE [ret |-> item,
                  widths |-> UpdateWidth(a.widths, tag_to_show, item[tag_to_show]),
                  fatal |-> FALSE]

(***************************************************************************)
(* sorted(results, key=lambda k: k[TAG_TO_SHOW])                           *)
(***************************************************************************)
\* the key function raises TypeError on a None element
sorted_raises(list) == \E i \in 1..Len(list) : list[i] = None

\* an insertion that puts x before the elements with an equal key
RECURSIVE InsertSorted_before(_, _, _)
InsertSorted_before(list, x, key) ==
    IF list = <<>> THEN <<x>>
    ELSE IF ~StrLess(Head(list)[key], x[key]) THEN <<x>> \o list
    ELSE <<Head(list)>> \o InsertSorted_before(Tail(list), x, key)

\* x goes after every element whose key is not greater than its own
RECURSIVE InsertSorted(_, _, _)
InsertSorted(list, x, key) ==
    IF list = <<>> THEN <<x>>
    ELSE IF StrLess(x[key], Head(list)[key]) THEN <<x>> \o list
    ELSE <<Head(list)>> \o InsertSorted(Tail(list), x, key)

RECURSIVE sorted(_, _)
sorted(list, key) ==
    IF list = <<>> THEN <<>>
    ELSE InsertSorted(sorted(SubSeq(list, 1, Len(list) - 1), key),
                      list[Len(list)], key)

(***************************************************************************)
(* print_table: the lines printed for a list of records                    *)
(***************************************************************************)
Line(kind, text) == [kind |-> kind, text |-> text]

print_table_fails(dict_list, columns, widths) ==
    /\ Len(dict_list) # 0
    /\ \E i \in 1..Len(columns) : get_width_fails(widths, columns[i])

RECURSIVE Heading(_, _)
Heading(columns, widths) ==
    IF columns = <<>> THEN ""
    ELSE ljust(Head(columns), get_width(widths, Head(columns)) + COLUMN_MARGIN)
         \o Heading(Tail(columns), widths)

\* a separator as long as the heading
Separator_full(heading) == Repeat("-", Len(heading))

\* '-' * (len(heading) - COLUMN_MARGIN)
Separator(heading) == Repeat("-", Len(heading) - COLUMN_MARGIN)

RECURSIVE Row(_, _, _)
Row(dict, columns, widths) ==
    IF columns = <<>> THEN ""
    ELSE ljust(Get(dict, Head(columns), ""),
               get_width(widths, Head(columns)) + COLUMN_MARGIN)
         \o Row(dict, Tail(columns), widths)

\* a renderer that prints the heading and the separator of an empty list too
print_table_always(dict_list, columns, widths) ==
    <<Line("heading", Heading(columns, widths)),
      Line("separator", Separator(Heading(columns, widths)))>>
    \o [i \in 1..Len(dict_list) |->
           Line("row", Row(dict_list[i], columns, widths))]

print_table(dict_list, columns, widths) ==
    IF Len(dict_list) = 0 THEN <<>>
    ELSE <<Line("heading", Heading(columns, widths)),
           Line("separator", Separator(Heading(columns, widths)))>>
         \o [i \in 1..Len(dict_list) |->
                Line("row", Row(dict_list[i], columns, widths))]

(***************************************************************************)
(* The external collaborators: the command line, the region catalogue and  *)
(* the provider's paginated describe_instances.                            *)
(***************************************************************************)
\* ARGS as parsed by argparse: each option is None or Str(text)
Args(regions, tag, attributes) ==
    [regions |-> regions, tag |-> tag, attributes |-> attributes]

ArgsChoices ==
    { Args(None, None, None),
      Args(Str("a,b"), Str("Name"), Str("InstanceId")),
      Args(Str("z,a"), Str("InstanceId"), None),
      Args(Str(""), None, Str("")) }

\* what get_available_regions('ec2') may return
LookupChoices == { <<>>, <<"a">>, <<"a", "b">> }

\* the text of the exception a failing provider call raises
ProviderError == "AuthFailure"

InstA ==
    Dict([InstanceId |-> Str("i-0a1"), InstanceType |-> Str("t2.micro"),
          LaunchTime |-> DateTime(2018, 3, 5, 7, 8, 9),
          Tags |-> Lst(<<[Key |-> "Name", Value |-> "web"],
                         [Key |-> "Owner", Value |-> "bob"],
                         [Key |-> "InstanceId", Value |-> "tagged"]>>)])
InstB ==
    Dict([InstanceId |-> Str("i-0b2"), LaunchTime |-> Str("yesterday"),
          Tags |-> Lst(<<[Key |-> "Owner", Value |-> "alice"]>>)])
InstC ==
    Dict([InstanceId |-> Str("i-0123456789abcdef0"), InstanceType |-> Str("m5.large"),
          Tags |-> Lst(<<[Key |-> "Owner"], [Value |-> "orphan"],
                         [Key |-> "Name", Value |-> "a-database-server"],
                         [Key |-> "InstanceId"]>>)])
InstD ==
    Dict([InstanceType |-> Str("t2.micro"),
          LaunchTime |-> DateTime(2020, 2, 29, 23, 59, 0)])
InstE ==
    Dict([InstanceId |-> Str("i-0e5"), Tags |-> Lst(<<>>)])

\* the bodies of a describe_instances response (without its NextToken)
ResponseBodies ==
    { EmptyDict,
      [Reservations |-> <<[Instances |-> <<InstA, InstB>>]>>],
      [Reservations |-> <<[Instances |-> <<InstC>>], [OwnerId |-> "42"],
                          [Instances |-> <<InstD, InstE>>]>>],
      [Reservations |-> <<[Instances |-> <<InstB, None>>]>>] }

\* the continuation token returned with page k, which addresses page k + 1
Token(k) == "t" \o str(k)

\* the page a request with this token asks for: '' asks for the first page
TokenIndex(token) ==
    IF token = "" THEN 1
    ELSE 1 + (CHOOSE k \in 1..MaxRequests : Token(k) = token)

\* the responses the provider may give for page idx: any body, and either no
\* NextToken, an empty NextToken, or the token of the next page
ResponsesFor(idx) ==
    ResponseBodies
    \cup { Put(b, "NextToken", t) : b \in ResponseBodies, t \in {"", Token(idx)} }

\* the instances of a response, in reservation order then instance order
RECURSIVE InstancesOf(_)
InstancesOf(reservations) ==
    IF reservations = <<>> THEN <<>>
    ELSE Get(Head(reservations), "Instances", <<>>)
         \o InstancesOf(Tail(reservations))

Flatten(response) == InstancesOf(Get(response, "Reservations", <<>>))

\* response.get('NextToken')
ResponseToken(response) ==
    IF "NextToken" \in DOMAIN response THEN Str(response["NextToken"]) ELSE None

(***************************************************************************)
(* The state of a run.                                                     *)
(***************************************************************************)
VARIABLES
    pc,                  \* the position of main()
    ARGS,                \* the parsed command line
    AVAILABLE_REGIONS, REGIONS, ATTRIBUTES_TO_SHOW, TAG_TO_SHOW,
    COLUMNS, COLUMN_WIDTHS,
    region_index,        \* position of the for loop of main in REGIONS
    results, next_token, \* locals of get_instances
    source,              \* history: the raw instances normalised into results
    unsorted,            \* history: the list handed to sorted()
    response, pending,   \* the current response and its instances not yet normalised
    instances,           \* the value get_instances returned to main
    stdout,              \* the lines printed, each with the statement that printed it
    exit_code,           \* -1 while running
    pages,               \* provider: the pages of the current region served so far
    requests,            \* page requests issued in the current region
    calls,               \* history of the provider calls
    attempted,           \* history: the regions main called get_instances for
    measured             \* history: the <<column, value>> pairs whose length was
                         \* compared with the tracked width

vars == <<pc, ARGS, AVAILABLE_REGIONS, REGIONS, ATTRIBUTES_TO_SHOW, TAG_TO_SHOW,
          COLUMNS, COLUMN_WIDTHS, region_index, results, next_token, source,
          unsorted, response, pending, instances, stdout, exit_code, pages,
          requests, calls, attempted, measured>>

globals == <<AVAILABLE_REGIONS, REGIONS, ATTRIBUTES_TO_SHOW, TAG_TO_SHOW,
             COLUMNS, COLUMN_WIDTHS>>
locals == <<results, next_token, source, unsorted, response, pending, instances>>
provider == <<pages, requests, calls>>

Init ==
    /\ pc = "init_regions"
    /\ ARGS \in ArgsChoices
    /\ AVAILABLE_REGIONS = <<>>
    /\ REGIONS = <<>>
    /\ ATTRIBUTES_TO_SHOW = <<>>
    /\ TAG_TO_SHOW = ""
    /\ COLUMNS = <<>>
    /\ COLUMN_WIDTHS = EmptyDict
    /\ region_index = 0
    /\ results = <<>>
    /\ next_token = Str("")
    /\ source = <<>>
    /\ unsorted = <<>>
    /\ response = EmptyDict
    /\ pending = <<>>
    /\ instances = None
    /\ stdout = <<>>
    /\ exit_code = -1
    /\ pages = <<>>
    /\ requests = 0
    /\ calls = <<>>
    /\ attempted = <<>>
    /\ measured = {}

\* fail(message): the ERROR line, then sys.exit(1)
fail(message) ==
    /\ stdout' = Append(stdout, Line("error", "ERROR: " \o message))
    /\ exit_code' = 1
    /\ pc' = "exit"

\* warn(message)
warn(message) == Line("warning", "WARNING: " \o message)

Call(op, sent, ok, returned) ==
    [op |-> op, index |-> region_index, region |-> REGIONS[region_index],
     sent |-> sent, ok |-> ok, returned |-> returned]

(***************************************************************************)
(* Initialisation: init_regions, init_tag, init_attributes, init_columns   *)
(***************************************************************************)
\* an init_regions without the check of the lookup result
NoAvailableRegions_unchecked(available) == FALSE

NoAvailableRegions(available) == Len(available) < 1

ResolveRegions(args, available) ==
    IF args.regions = None THEN available ELSE split(args.regions.s)

init_regions ==
    /\ pc = "init_regions"
    /\ \E lookup \in LookupChoices :
        /\ AVAILABLE_REGIONS' = lookup
        /\ IF NoAvailableRegions(lookup)
           THEN /\ fail("No available regions were returned.")
                /\ REGIONS' = REGIONS
           ELSE /\ REGIONS' = ResolveRegions(ARGS, lookup)
                /\ IF Len(REGIONS') < 1
                   THEN fail("List of regions is empty.")
                   ELSE /\ pc' = "init_tag"
                        /\ UNCHANGED <<stdout, exit_code>>
    /\ UNCHANGED <<ARGS, ATTRIBUTES_TO_SHOW, TAG_TO_SHOW, COLUMNS, COLUMN_WIDTHS,
                   region_index, locals, provider, attempted, measured>>

init_tag ==
    /\ pc = "init_tag"
    /\ TAG_TO_SHOW' = (IF ARGS.tag = None THEN DEFAULT_TAG ELSE ARGS.tag.s)
    /\ pc' = "init_attributes"
    /\ UNCHANGED <<ARGS, AVAILABLE_REGIONS, REGIONS, ATTRIBUTES_TO_SHOW, COLUMNS,
                   COLUMN_WIDTHS, region_index, locals, stdout, exit_code,
                   provider, attempted, measured>>

ResolveAttributes(args) ==
    IF args.attributes = None
    THEN split(DEFAULT_ATTRIBUTES)
    ELSE split(args.attributes.s)

init_attributes ==
    /\ pc = "init_attributes"
    /\ ATTRIBUTES_TO_SHOW' = ResolveAttributes(ARGS)
    /\ IF Len(ATTRIBUTES_TO_SHOW') = 0
       THEN fail("List of attributes is empty.")
       ELSE /\ pc' = "init_columns"
            /\ UNCHANGED <<stdout, exit_code>>
    /\ UNCHANGED <<ARGS, AVAILABLE_REGIONS, REGIONS, TAG_TO_SHOW, COLUMNS,
                   COLUMN_WIDTHS, region_index, locals, provider, attempted, measured>>

\* an initialisation that tracks the first column only
InitialWidths_first(columns, widths) ==
    IF columns = <<>> THEN widths
    ELSE Put(widths, Head(columns), Len(Head(columns)))


\* COLUMN_WIDTHS after the loop of init_columns over the columns
RECURSIVE InitialWidths(_, _)
InitialWidths(columns, widths) ==
    IF columns = <<>> THEN widths
    ELSE InitialWidths(Tail(columns), Put(widths, Head(columns), Len(Head(columns))))

init_columns ==
    /\ pc = "init_columns"
    /\ COLUMNS' = Append(COLUMNS, TAG_TO_SHOW) \o ATTRIBUTES_TO_SHOW
    /\ COLUMN_WIDTHS' = InitialWidths(COLUMNS', COLUMN_WIDTHS)
    /\ pc' = "for_region"
    /\ UNCHANGED <<ARGS, AVAILABLE_REGIONS, REGIONS, ATTRIBUTES_TO_SHOW,
                   TAG_TO_SHOW, region_index, locals, stdout, exit_code,
                   provider, attempted, measured>>

(***************************************************************************)
(* main: the loop over REGIONS                                             *)
(***************************************************************************)
\* the first of the columns that COLUMN_WIDTHS does not track
FirstUntracked(columns, widths) ==
    columns[CHOOSE i \in 1..Len(columns) :
                /\ get_width_fails(widths, columns[i])
                /\ \A j \in 1..(i - 1) : ~get_width_fails(widths, columns[j])]

get_width_message(column_name) ==
    "Can't get width of column \"" \o column_name \o "\""

\* the next region of the for loop: banner, label, call of get_instances
main_for_region ==
    /\ pc = "for_region"
    /\ region_index < Len(REGIONS)
    /\ region_index' = region_index + 1
    /\ stdout' = stdout \o <<Line("banner", Repeat("*", BANNER_WIDTH)),
                             Line("region", "REGION: " \o REGIONS[region_index'])>>
    /\ attempted' = Append(attempted, REGIONS[region_index'])
    /\ pages' = <<>>
    /\ requests' = 0
    /\ pc' = "get_instances"
    /\ UNCHANGED <<ARGS, globals, locals, exit_code, calls, measured>>

\* the for loop is exhausted: main returns and the process exits with 0
main_end ==
    /\ pc = "for_region"
    /\ region_index >= Len(REGIONS)
    /\ pc' = "done"
    /\ exit_code' = 0
    /\ UNCHANGED <<ARGS, globals, region_index, locals, stdout, provider, attempted, measured>>

\* the count line and the table of a region whose get_instances returned a list
main_print ==
    /\ pc = "print"
    /\ IF instances # None
       THEN IF print_table_fails(instances.items, COLUMNS, COLUMN_WIDTHS)
            THEN /\ stdout' = stdout \o
                        <<Line("count", "Instances: " \o str(Len(instances.items))),
                          Line("error", "ERROR: " \o
                               get_width_message(FirstUntracked(COLUMNS, COLUMN_WIDTHS)))>>
                 /\ exit_code' = 1
                 /\ pc' = "exit"
            ELSE /\ stdout' = stdout \o
                        <<Line("count", "Instances: " \o str(Len(instances.items)))>>
                        \o print_table(instances.items, COLUMNS, COLUMN_WIDTHS)
                 /\ pc' = "for_region"
                 /\ UNCHANGED exit_code
       ELSE /\ pc' = "for_region"
            /\ UNCHANGED <<stdout, exit_code>>
    /\ UNCHANGED <<ARGS, globals, region_index, locals, provider, attempted, measured>>

(***************************************************************************)
(* get_instances(region)                                                   *)
(***************************************************************************)
region == REGIONS[region_index]

\* a check that lets every region through
RegionUnavailable_never(name, available) == FALSE

\* not (region in AVAILABLE_REGIONS)
RegionUnavailable(name, available) ==
    \A i \in 1..Len(available) : available[i] # name

\* the locals are initialised and the region is checked against
\* AVAILABLE_REGIONS
get_instances_validate ==
    /\ pc = "get_instances"
    /\ results' = <<>>
    /\ next_token' = Str("")
    /\ source' = <<>>
    /\ unsorted' = <<>>
    /\ response' = EmptyDict
    /\ pending' = <<>>
    /\ IF RegionUnavailable(region, AVAILABLE_REGIONS)
       THEN /\ stdout' = Append(stdout,
                    warn("Region \"" \o region \o "\" is not one of the available regions."))
            /\ instances' = None
            /\ pc' = "print"
       ELSE /\ pc' = "client"
            /\ UNCHANGED <<stdout, instances>>
    /\ UNCHANGED <<ARGS, globals, region_index, exit_code, provider, attempted, measured>>

\* boto3.client('ec2', region_name=region) returns a client
get_instances_client ==
    /\ pc = "client"
    /\ calls' = Append(calls, Call("client", None, TRUE, None))
    /\ pc' = "describe"
    /\ UNCHANGED <<ARGS, globals, region_index, locals, stdout, exit_code,
                   pages, requests, attempted, measured>>

\* boto3.client raises: warning, the exception text, return
get_instances_client_error ==
    /\ pc = "client"
    /\ calls' = Append(calls, Call("client", None, FALSE, None))
    /\ stdout' = stdout \o
            <<warn("There was a problem creating a client for this region "
                   \o region \o "."),
              Line("exception", ProviderError)>>
    /\ instances' = None
    /\ pc' = "print"
    /\ UNCHANGED <<ARGS, globals, region_index, results, next_token, source,
                   unsorted, response, pending, exit_code, pages, requests,
                   attempted, measured>>

\* client.describe_instances(NextToken=next_token) returns a response: the
\* page the token addresses, the same one if that page was served before
get_instances_describe ==
    /\ pc = "describe"
    /\ requests < MaxRequests
    /\ LET idx == TokenIndex(next_token.s) IN
       \E r \in (IF idx <= Len(pages) THEN {pages[idx]} ELSE ResponsesFor(idx)) :
            /\ pages' = (IF idx <= Len(pages) THEN pages ELSE Append(pages, r))
            /\ response' = r
            /\ pending' = Flatten(r)
            /\ calls' = Append(calls,
                    Call("describe_instances", next_token, TRUE, ResponseToken(r)))
    /\ requests' = requests + 1
    /\ pc' = "append"
    /\ UNCHANGED <<ARGS, globals, region_index, results, next_token, source,
                   unsorted, instances, stdout, exit_code, attempted, measured>>

\* a get_instances that returns the records accumulated so far
FetchErrorReturn_partial(accumulated) == Lst(accumulated)

\* what get_instances returns when a page request raised
FetchErrorReturn(accumulated) == None

\* a handler that goes round the while loop again
AfterFetchError_retry == "describe"

\* where get_instances goes on after the except block of a page request:
\* return, back in main
AfterFetchError == "print"

\* client.describe_instances raises: warning, the exception text, return
get_instances_describe_error ==
    /\ pc = "describe"
    /\ requests < MaxRequests
    /\ requests' = requests + 1
    /\ calls' = Append(calls, Call("describe_instances", next_token, FALSE, None))
    /\ stdout' = stdout \o
            <<warn("There was a problem getting the instances in the region "
                   \o region \o "."),
              Line("exception", ProviderError)>>
    /\ instances' = FetchErrorReturn(results)
    /\ pc' = AfterFetchError
    /\ UNCHANGED <<ARGS, globals, region_index, results, next_token, source,
                   unsorted, response, pending, exit_code, pages, attempted, measured>>

\* an accumulator that keeps only the records of the latest page
Accumulate_latest(accumulated, record) ==
    IF Len(accumulated) >= 2 THEN <<record>> ELSE Append(accumulated, record)

\* results.append(record)
Accumulate(accumulated, record) == Append(accumulated, record)

\* the <<column, value>> pairs get_instance_data compares with the tracked
\* widths while it builds the item of an instance: the value stored for each
\* attribute, then the final value of the tag column
Measured(instance, attributes, tag_to_show, item) ==
    IF instance = None THEN {}
    ELSE {<<attributes[i], AttributeValue(instance.fields, attributes[i])>> :
                i \in 1..Len(attributes)}
         \cup {<<tag_to_show, item[tag_to_show]>>}

\* the body of the loops over reservations and instances, for the next
\* instance of the response: results.append(get_instance_data(instance))
get_instances_append ==
    /\ pc = "append"
    /\ pending # <<>>
    /\ LET r == get_instance_data(Head(pending), ATTRIBUTES_TO_SHOW, TAG_TO_SHOW,
                                  COLUMN_WIDTHS)
       IN /\ COLUMN_WIDTHS' = r.widths
          /\ IF r.fatal
             THEN /\ fail(get_width_message(
                        FirstUntracked(Append(ATTRIBUTES_TO_SHOW, TAG_TO_SHOW),
                                       COLUMN_WIDTHS)))
                  /\ UNCHANGED <<results, source, pending, measured>>
             ELSE /\ results' = Accumulate(results, r.ret)
                  /\ source' = Append(source, Head(pending))
                  /\ pending' = Tail(pending)
                  /\ measured' = measured \cup
                        Measured(Head(pending), ATTRIBUTES_TO_SHOW, TAG_TO_SHOW, r.ret)
                  /\ UNCHANGED <<pc, stdout, exit_code>>
    /\ UNCHANGED <<ARGS, AVAILABLE_REGIONS, REGIONS, ATTRIBUTES_TO_SHOW, TAG_TO_SHOW,
                   COLUMNS, region_index, next_token, unsorted, response,
                   instances, provider, attempted>>

\* whether the while loop goes on after a response with this NextToken
LoopContinues(token) == token # None

\* a loop that always carries on from the token of the second page
NextRequestToken_second(resp) ==
    IF "NextToken" \in DOMAIN resp THEN Str(Token(1)) ELSE None

\* next_token = response.get('NextToken')
NextRequestToken(resp) == ResponseToken(resp)

\* the end of the while body: next_token = response.get('NextToken'), break
\* when it is None
get_instances_next_token ==
    /\ pc = "append"
    /\ pending = <<>>
    /\ next_token' = NextRequestToken(response)
    /\ pc' = (IF LoopContinues(next_token') THEN "describe" ELSE "sort")
    /\ UNCHANGED <<ARGS, globals, region_index, results, source, unsorted,
                   response, pending, instances, stdout, exit_code, provider,
                   attempted, measured>>

\* results = sorted(results, key=...); return results.  The key function
\* raises TypeError on a None element: the exception is caught nowhere and
\* ends the process with a traceback and exit code 1
get_instances_sort ==
    /\ pc = "sort"
    /\ unsorted' = results
    /\ IF sorted_raises(results)
       THEN /\ pc' = "raised"
            /\ exit_code' = 1
            /\ UNCHANGED <<results, instances>>
       ELSE /\ results' = sorted(results, TAG_TO_SHOW)
            /\ instances' = Lst(results')
            /\ pc' = "print"
            /\ UNCHANGED exit_code
    /\ UNCHANGED <<ARGS, globals, region_index, next_token, source, response,
                   pending, stdout, provider, attempted, measured>>

(***************************************************************************)
(* The run.                                                                *)
(***************************************************************************)
Next ==
    \/ init_regions
    \/ init_tag
    \/ init_attributes
    \/ init_columns
    \/ main_for_region
    \/ main_end
    \/ main_print
    \/ get_instances_validate
    \/ get_instances_client
    \/ get_instances_client_error
    \/ get_instances_describe
    \/ get_instances_describe_error
    \/ get_instances_append
    \/ get_instances_next_token
    \/ get_instances_sort

Spec == Init /\ [][Next]_vars

(***************************************************************************)
(* Properties.                                                             *)
(***************************************************************************)
\* initialisation has completed: init_columns has filled COLUMNS
InitCompleted == Len(COLUMNS) > 0

IsDescribe(call) == call.op = "describe_instances"

\* the lines printed for the k-th region of the run: those after the k-th
\* banner and before the next one
BannersBefore(n) == Cardinality({i \in 1..n : stdout[i].kind = "banner"})

RegionLines(k) ==
    {i \in 1..Len(stdout) : BannersBefore(i) = k /\ stdout[i].kind # "banner"}

TableKinds == {"count", "heading", "separator", "row"}

\* C1: for every region list and every pattern of region-level failures,
\* main attempts every region of the list exactly once, in the order given,
\* and the run then ends normally with exit code 0: the regions attempted are
\* always a prefix of REGIONS, and a run that got past initialisation ends
\* only with exit code 0 and every region attempted.
C1_EveryRegionAttempted ==
    /\ Len(attempted) <= Len(REGIONS)
    /\ attempted = SubSeq(REGIONS, 1, Len(attempted))
    /\ (InitCompleted /\ exit_code # -1) =>
            (exit_code = 0 /\ attempted = REGIONS)

\* C2: a page request that fails makes get_instances return the failure
\* outcome whatever was accumulated, and main prints neither a count line nor
\* any table line for that region.
C2_FailedRegionNotRendered ==
    /\ \A i \in 1..Len(calls) :
            (IsDescribe(calls[i]) /\ ~calls[i].ok) =>
                \A l \in RegionLines(calls[i].index) : stdout[l].kind \notin TableKinds
    /\ (pc = "print" /\ calls # <<>> /\ IsDescribe(calls[Len(calls)])
            /\ ~calls[Len(calls)].ok) => instances = None

\* C2 witness: the request for a later page failed after records had been
\* accumulated, and main has finished with that region.
C2_Witness ==
    /\ pc = "for_region"
    /\ calls # <<>>
    /\ IsDescribe(calls[Len(calls)])
    /\ ~calls[Len(calls)].ok
    /\ calls[Len(calls)].sent # Str("")
    /\ calls[Len(calls)].index = region_index
    /\ Len(results) >= 2

\* the records of a sequence of raw instances, in order
RECURSIVE RecordsOf(_)
RecordsOf(raw) ==
    IF raw = <<>> THEN <<>>
    ELSE <<get_instance_data(Head(raw), ATTRIBUTES_TO_SHOW, TAG_TO_SHOW,
                             COLUMN_WIDTHS).ret>>
         \o RecordsOf(Tail(raw))

\* the instances of a sequence of pages, in page order
RECURSIVE AllInstances(_)
AllInstances(pageList) ==
    IF pageList = <<>> THEN <<>>
    ELSE Flatten(Head(pageList)) \o AllInstances(Tail(pageList))

\* C3: when no page request failed, the list accumulated before sorting is
\* the concatenation, in page order then reservation order then instance
\* order, of the records of all instances of all pages of the provider, one
\* record per instance, and as many page requests were issued as there are
\* pages.
C3_Concatenation ==
    pc = "sort" =>
        /\ results = RecordsOf(AllInstances(pages))
        /\ Len(results) = Len(AllInstances(pages))
        /\ requests = Len(pages)

\* C3 witness: the loop ended after two different pages that both hold
\* instances, one of them in several reservations.
C3_Witness ==
    /\ pc = "sort"
    /\ Len(pages) >= 2
    /\ pages[1] # pages[2]
    /\ Flatten(pages[1]) # <<>>
    /\ Flatten(pages[2]) # <<>>
    /\ \E p \in 1..Len(pages) : Len(Get(pages[p], "Reservations", <<>>)) > 1

\* C4: the fetch loop stops at the first response that carries no non-empty
\* continuation token (token absent or empty): after such a response no
\* further page request is issued for that region.
C4_StopsWithoutToken ==
    \A i \in 1..Len(calls) :
        (IsDescribe(calls[i]) /\ calls[i].ok
            /\ (calls[i].returned = None \/ calls[i].returned = Str(""))) =>
                \A j \in (i + 1)..Len(calls) :
                    ~(IsDescribe(calls[j]) /\ calls[j].index = calls[i].index)

\* the set of the elements of a sequence
Range(seq) == {seq[i] : i \in 1..Len(seq)}

\* results[i] is the record of source[i]: from the start of get_instances
\* until sorted() reorders the list
Unsorted == pc \in {"client", "describe", "append", "sort", "raised"}

\* the tag entries of a raw instance
TagsOf(raw) == Get(raw.fields, "Tags", Lst(<<>>)).items

\* the positions of the entries of a tag list whose Key is the tag to show
Matching(tags) ==
    {t \in 1..Len(tags) : "Key" \in DOMAIN tags[t] /\ tags[t]["Key"] = TAG_TO_SHOW}

\* C5: every record produced by get_instance_data has exactly the keys
\* {TAG_TO_SHOW} union ATTRIBUTES_TO_SHOW, whatever the raw instance held.
C5_KeySet ==
    \A i \in 1..Len(results) :
        results[i] # None =>
            DOMAIN results[i] = {TAG_TO_SHOW} \cup Range(ATTRIBUTES_TO_SHOW)

\* C5 witness: the tag name is also an attribute name, and records were
\* produced from an instance whose matching tag entry has no value, from one
\* without a Tags list that lacks attributes, and from one with an empty list.
C5_Witness ==
    /\ pc = "sort"
    /\ TAG_TO_SHOW \in Range(ATTRIBUTES_TO_SHOW)
    /\ source = <<InstC, InstD, InstE>>
    /\ Len(results) = 3

LastMatching(tags) ==
    tags[CHOOSE t \in Matching(tags) : \A u \in Matching(tags) : u <= t]

Overwritten(raw, attribute) ==
    attribute = TAG_TO_SHOW /\ Matching(TagsOf(raw)) # {}

\* C7 as stated: a missing attribute is stored as "(no attribute key)" and a
\* present attribute as the instance's own value.
C7_OwnValue ==
    Unsorted =>
        \A i \in 1..Len(source) : \A attribute \in Range(ATTRIBUTES_TO_SHOW) :
            source[i] # None =>
                IF attribute \in DOMAIN source[i].fields
                THEN Str(results[i][attribute]) = source[i].fields[attribute]
                ELSE results[i][attribute] = NO_ATTRIBUTE_KEY

\* C7 amended: a missing attribute is stored as "(no attribute key)", a
\* present string attribute as that string and a present datetime attribute
\* as its ctime() text; only an attribute whose name is TAG_TO_SHOW holds the
\* value of the tag loop instead when a tag entry has that key.
C7_StoredValue ==
    Unsorted =>
        \A i \in 1..Len(source) : \A attribute \in Range(ATTRIBUTES_TO_SHOW) :
            (source[i] # None /\ ~Overwritten(source[i], attribute)) =>
                IF attribute \in DOMAIN source[i].fields
                THEN LET own == source[i].fields[attribute] IN
                     IF own.type = "datetime"
                     THEN results[i][attribute] = ctime(own)
                     ELSE results[i][attribute] = own.s
                ELSE results[i][attribute] = NO_ATTRIBUTE_KEY

\* C7 witness: a record of an instance with a string attribute, a datetime
\* attribute and a missing attribute.
C7_Witness ==
    /\ Unsorted
    /\ ATTRIBUTES_TO_SHOW = split(DEFAULT_ATTRIBUTES)
    /\ \E i \in 1..Len(source) :
        /\ source[i] = InstD
        /\ results[i]["InstanceId"] = NO_ATTRIBUTE_KEY
        /\ results[i]["InstanceType"] = "t2.micro"
        /\ results[i]["LaunchTime"] = "Sat Feb 29 23:59:00 2020"

\* C8: over the whole run every entry of COLUMN_WIDTHS is at least the
\* length of its column name, and no step removes a column or lowers its
\* width; the widths are not reset between regions.
C8_WidthsGrow ==
    /\ [](\A c \in DOMAIN COLUMN_WIDTHS : COLUMN_WIDTHS[c] >= Len(c))
    /\ [][\A c \in DOMAIN COLUMN_WIDTHS :
            /\ c \in DOMAIN COLUMN_WIDTHS'
            /\ COLUMN_WIDTHS'[c] >= COLUMN_WIDTHS[c]]_vars

\* C8 witness: the second region starts with a width that a record of the
\* first region raised, although the first region failed.
C8_Witness ==
    /\ region_index = 2
    /\ pc = "get_instances"
    /\ \E i \in 1..Len(calls) :
            IsDescribe(calls[i]) /\ ~calls[i].ok /\ calls[i].index = 1
    /\ \E c \in DOMAIN COLUMN_WIDTHS : COLUMN_WIDTHS[c] > Len(c)

\* the position a stable ascending sort gives to element i of a list: after
\* the elements with a smaller key and the earlier elements with an equal key
Rank(list, i, key) ==
    1 + Cardinality({j \in 1..Len(list) : StrLess(list[j][key], list[i][key])})
      + Cardinality({j \in 1..(i - 1) : list[j][key] = list[i][key]})

\* C9: the list get_instances returns on success is a permutation of the
\* accumulated records, ascending by the sort-tag string, and stable: records
\* with equal sort-tag values keep the order in which they were appended.
C9_StableSort ==
    (pc = "print" /\ instances # None) =>
        LET out == instances.items IN
        /\ Len(out) = Len(unsorted)
        /\ \A a, b \in 1..Len(out) :
                a < b => ~StrLess(out[b][TAG_TO_SHOW], out[a][TAG_TO_SHOW])
        /\ \A i \in 1..Len(unsorted) :
                out[Rank(unsorted, i, TAG_TO_SHOW)] = unsorted[i]

\* C9 witness: a sorted list whose input held two different records with
\* equal sort-tag values and two records out of order.
C9_Witness ==
    /\ pc = "print"
    /\ instances # None
    /\ instances.items # unsorted
    /\ \E i, j \in 1..Len(unsorted) :
            /\ i < j
            /\ unsorted[i][TAG_TO_SHOW] = unsorted[j][TAG_TO_SHOW]
            /\ unsorted[i] # unsorted[j]
    /\ \E i, j \in 1..Len(unsorted) :
            i < j /\ StrLess(unsorted[j][TAG_TO_SHOW], unsorted[i][TAG_TO_SHOW])

\* the run ended in initialisation: one ERROR line, exit code 1, no region
\* banner, no provider call
FatalDuringInit ==
    /\ pc = "exit"
    /\ exit_code = 1
    /\ Len(stdout) = 1
    /\ stdout[1].kind = "error"
    /\ SubSeq(stdout[1].text, 1, 7) = "ERROR: "
    /\ calls = <<>>
    /\ attempted = <<>>
    /\ region_index = 0

\* C10: if the lookup returns zero regions, the resolved region list is empty
\* or the resolved attribute list is empty, the run ends with a fatal error
\* during initialisation, before any region is processed.
C10_FatalConfiguration ==
    /\ (pc # "init_regions" /\ (Len(AVAILABLE_REGIONS) < 1 \/ Len(REGIONS) < 1))
            => FatalDuringInit
    /\ (pc \notin {"init_regions", "init_tag", "init_attributes"}
            /\ Len(ATTRIBUTES_TO_SHOW) = 0) => FatalDuringInit

\* C10 witness: regions were named on the command line, the lookup returned
\* none, and the run has ended.
C10_Witness ==
    /\ FatalDuringInit
    /\ ARGS.regions # None
    /\ AVAILABLE_REGIONS = <<>>

\* the k-th region of the run has left get_instances
Returned(k) == k < region_index \/ (k = region_index /\ pc \in {"print", "for_region", "done"})

\* C11: a region that is not in AVAILABLE_REGIONS makes get_instances return
\* the failure outcome after one warning, and no provider call is ever made
\* for it: neither a client construction nor a page request.
C11_NoCallForUnknownRegion ==
    \A k \in 1..region_index :
        REGIONS[k] \notin Range(AVAILABLE_REGIONS) =>
            /\ \A i \in 1..Len(calls) : calls[i].index # k
            /\ Returned(k) =>
                    /\ Cardinality({l \in RegionLines(k) : stdout[l].kind = "warning"}) = 1
                    /\ \A l \in RegionLines(k) : stdout[l].kind \in {"region", "warning"}
            /\ (k = region_index /\ pc = "print") => instances = None

\* C11 witness: the first region was not an available one, the run went on,
\* and the provider was called for the second region only.
C11_Witness ==
    /\ region_index = 2
    /\ REGIONS[1] \notin Range(AVAILABLE_REGIONS)
    /\ \E l \in RegionLines(1) : stdout[l].kind = "warning"
    /\ Len(calls) >= 2
    /\ \A i \in 1..Len(calls) : calls[i].index = 2

\* C12: main tells a successful region with zero instances from a failed
\* region.  For the first it prints the count line "Instances: 0" and the
\* renderer prints nothing, no heading and no separator; for the second there
\* is a warning and main prints neither a count line nor any table line.
C12_EmptyVersusFailed ==
    /\ [](pc = "print" /\ instances = None =>
            /\ \E l \in RegionLines(region_index) : stdout[l].kind = "warning"
            /\ \A l \in RegionLines(region_index) : stdout[l].kind \notin TableKinds)
    /\ [][pc = "print" =>
            /\ instances = None => stdout' = stdout
            /\ instances = Lst(<<>>) =>
                    stdout' = Append(stdout, Line("count", "Instances: 0"))]_vars

\* C12 witness: the first region failed and left a warning as its last line,
\* the second region succeeded with no instance and main has printed its
\* count line, the last line of the output.
C12_Witness ==
    /\ pc = "for_region"
    /\ region_index = 2
    /\ instances = Lst(<<>>)
    /\ \E i \in 1..Len(calls) : calls[i].index = 1 /\ ~calls[i].ok
    /\ \A l \in RegionLines(1) : stdout[l].kind \notin TableKinds
    /\ stdout[Len(stdout)] = Line("count", "Instances: 0")
    /\ stdout[Len(stdout) - 1].kind = "region"

(***************************************************************************)
(* print_table on its own: the renderer applied to column lists, tracked   *)
(* widths and record lists drawn from small sets.  As after init_columns   *)
(* and get_instance_data, every column is tracked with a width that is at  *)
(* least the length of its name and of every value of the column.          *)
(***************************************************************************)
MaxRows == 2
MaxSlack == 2

RenderColumns ==
    {<<"Owner", "InstanceId">>, <<"InstanceId", "Owner">>,
     <<"InstanceId", "InstanceId">>}

RenderValues == {"", "alice", "i-123", "unknown"}

RenderWidths(columns) ==
    {w \in [Range(columns) -> 0..(10 + MaxSlack)] :
        \A c \in Range(columns) : w[c] \in Len(c)..(Len(c) + MaxSlack)}

RenderRecords(columns, widths) ==
    {r \in [Range(columns) -> RenderValues] :
        \A c \in Range(columns) : Len(r[c]) <= widths[c]}

SeqsUpTo(S, n) == UNION {[1..k -> S] : k \in 0..n}

InitRender ==
    /\ pc = "print_table"
    /\ ARGS = Args(None, None, None)
    /\ AVAILABLE_REGIONS = <<"a">>
    /\ REGIONS = <<"a">>
    /\ COLUMNS \in RenderColumns
    /\ TAG_TO_SHOW = Head(COLUMNS)
    /\ ATTRIBUTES_TO_SHOW = Tail(COLUMNS)
    /\ COLUMN_WIDTHS \in RenderWidths(COLUMNS)
    /\ region_index = 1
    /\ results = <<>>
    /\ next_token = None
    /\ source = <<>>
    /\ unsorted = <<>>
    /\ response = EmptyDict
    /\ pending = <<>>
    /\ instances \in {Lst(l) : l \in SeqsUpTo(RenderRecords(COLUMNS, COLUMN_WIDTHS), MaxRows)}
    /\ stdout = <<>>
    /\ exit_code = -1
    /\ pages = <<>>
    /\ requests = 0
    /\ calls = <<>>
    /\ attempted = <<"a">>
    /\ measured = {}

\* print_table(instances)
render_table ==
    /\ pc = "print_table"
    /\ ~print_table_fails(instances.items, COLUMNS, COLUMN_WIDTHS)
    /\ stdout' = stdout \o print_table(instances.items, COLUMNS, COLUMN_WIDTHS)
    /\ pc' = "printed"
    /\ UNCHANGED <<ARGS, globals, region_index, locals, exit_code, provider, attempted, measured>>

NextRender == render_table

SpecRender == InitRender /\ [][NextRender]_vars

\* the table of the example has been rendered
ExampleRendered ==
    /\ pc = "printed"
    /\ COLUMNS = <<"Owner", "InstanceId">>
    /\ COLUMN_WIDTHS = [Owner |-> 7, InstanceId |-> 10]
    /\ instances = Lst(<<[Owner |-> "alice", InstanceId |-> "i-123"]>>)

\* C13 as stated: with columns ["Owner","InstanceId"], widths
\* {"Owner":7,"InstanceId":10}, margin 2 and the single record
\* {"Owner":"alice","InstanceId":"i-123"} the heading is "Owner" and six
\* spaces, then "InstanceId" and two spaces, and the data line is "alice" and
\* six spaces, then "i-123" and seven spaces.
C13_ExampleAsStated ==
    ExampleRendered =>
        /\ stdout[1] = Line("heading", "Owner      InstanceId  ")
        /\ stdout[3] = Line("row", "alice      i-123       ")

\* C13: for the same input every column is left-justified to its width plus
\* the margin, 9 and 12 characters: the heading is "Owner" and four spaces,
\* then "InstanceId" and two spaces, the separator is 19 dashes, and the data
\* line is "alice" and four spaces, then "i-123" and seven spaces.
C13_ExampleLines ==
    ExampleRendered =>
        stdout = <<Line("heading", "Owner    InstanceId  "),
                   Line("separator", "-------------------"),
                   Line("row", "alice    i-123       ")>>

\* C13 witness: the example has been rendered into three lines.
C13_Witness == ExampleRendered /\ Len(stdout) = 3

\* C14: a null instance inside a reservation is a no-op: it yields no record
\* and does not abort the run, and the region ends with the sorted list of
\* exactly the records of the instances that are not null.
C14_NullInstanceIsNoOp ==
    /\ pc # "raised"
    /\ \A i \in 1..Len(results) : results[i] # None
    /\ (pc = "print" /\ instances # None) =>
            Len(instances.items) = Cardinality({i \in 1..Len(source) : source[i] # None})

\* the page requests made before the i-th provider call for the same region
EarlierRequests(i) ==
    {j \in 1..(i - 1) : IsDescribe(calls[j]) /\ calls[j].index = calls[i].index}

Latest(S) == CHOOSE j \in S : \A k \in S : k <= j

\* C15: within one region the first page request carries the empty-string
\* token, and every later request carries exactly the token returned by the
\* response immediately before it in the same region: never a token of an
\* earlier page or of another region.
C15_TokenChain ==
    \A i \in 1..Len(calls) :
        IsDescribe(calls[i]) =>
            IF EarlierRequests(i) = {}
            THEN calls[i].sent = Str("")
            ELSE /\ calls[Latest(EarlierRequests(i))].ok
                 /\ calls[i].sent = calls[Latest(EarlierRequests(i))].returned

\* C15 witness: the first region was left while a token was outstanding (its
\* request for the second page failed); the second region began with the
\* empty token and went on with the token of its own first response.
C15_Witness ==
    /\ \E i \in 1..Len(calls) :
            /\ IsDescribe(calls[i])
            /\ calls[i].index = 1
            /\ calls[i].sent = Str(Token(1))
            /\ ~calls[i].ok
    /\ \E i \in 1..Len(calls), j \in 1..Len(calls) :
            /\ i < j
            /\ IsDescribe(calls[i]) /\ IsDescribe(calls[j])
            /\ calls[i].index = 2 /\ calls[j].index = 2
            /\ calls[i].sent = Str("") /\ calls[i].returned = Str(Token(1))
            /\ calls[j].sent = Str(Token(1)) /\ calls[j].returned = Str(Token(2))

\* C16: a failed region makes no further provider call: after a client
\* construction or a page request failed, there is no retry and no request
\* for a next page in that region, so a region sees at most one failing call.
C16_FailureIsFinal ==
    \A i \in 1..Len(calls) :
        ~calls[i].ok => \A j \in (i + 1)..Len(calls) : calls[j].index # calls[i].index

\* C16 witness: the client construction failed for the first region, a page
\* request failed for the second after a page had been served, and the run
\* has ended.
C16_Witness ==
    /\ pc = "done"
    /\ Len(calls) = 4
    /\ calls[1].op = "client" /\ ~calls[1].ok /\ calls[1].index = 1
    /\ calls[2].op = "client" /\ calls[2].ok /\ calls[2].index = 2
    /\ IsDescribe(calls[3]) /\ calls[3].ok
    /\ IsDescribe(calls[4]) /\ ~calls[4].ok /\ calls[4].index = 2

\* the sum over all columns of the tracked width plus the margin
RECURSIVE HeaderLength(_, _)
HeaderLength(columns, widths) ==
    IF columns = <<>> THEN 0
    ELSE widths[Head(columns)] + COLUMN_MARGIN + HeaderLength(Tail(columns), widths)

\* main is about to render a list that is not empty
RendersTable == pc = "print" /\ instances # None /\ Len(instances.items) > 0

\* C17: for every record list that is not empty, the separator line consists
\* only of '-' characters and its length is the length of the heading minus
\* COLUMN_MARGIN, where the length of the heading is the sum over all columns
\* of the tracked width plus COLUMN_MARGIN.
C17_SeparatorLength ==
    [][RendersTable =>
        LET heading == stdout'[Len(stdout) + 2]
            separator == stdout'[Len(stdout) + 3]
        IN /\ heading.kind = "heading"
           /\ separator.kind = "separator"
           /\ Len(heading.text) = HeaderLength(COLUMNS, COLUMN_WIDTHS)
           /\ Len(separator.text) = Len(heading.text) - COLUMN_MARGIN
           /\ \A i \in 1..Len(separator.text) :
                    SubSeq(separator.text, i, i) = "-"]_vars

\* C17 witness: a table of two records has been printed whose separator is
\* longer than the names of the columns and the margins between them take up.
C17_Witness ==
    /\ pc = "for_region"
    /\ instances # None
    /\ Len(instances.items) = 2
    /\ Len(stdout) > 3
    /\ stdout[Len(stdout) - 2].kind = "separator"
    /\ stdout[Len(stdout) - 3].kind = "heading"
    /\ Len(stdout[Len(stdout) - 2].text) = HeaderLength(COLUMNS, COLUMN_WIDTHS) - COLUMN_MARGIN
    /\ \E c \in Range(COLUMNS) : COLUMN_WIDTHS[c] > Len(c)

\* the columns get_instance_data and print_table look the width up for
LookedUp == Range(COLUMNS) \cup Range(ATTRIBUTES_TO_SHOW) \cup {TAG_TO_SHOW}

\* C18: once initialisation has completed no fatal error is reachable: every
\* column get_instance_data and print_table look the width up for is in
\* COLUMN_WIDTHS, so fail() is never called after the first region started:
\* the run is not at the exit of fail() and no ERROR line was printed.
C18_NoFatalAfterInit ==
    InitCompleted =>
        /\ LookedUp \subseteq DOMAIN COLUMN_WIDTHS
        /\ pc # "exit"
        /\ \A l \in 1..Len(stdout) : stdout[l].kind # "error"
        /\ ~get_width_fails(COLUMN_WIDTHS, TAG_TO_SHOW)
        /\ \A i \in 1..Len(ATTRIBUTES_TO_SHOW) :
                ~get_width_fails(COLUMN_WIDTHS, ATTRIBUTES_TO_SHOW[i])
        /\ pc = "print" /\ instances # None =>
                ~print_table_fails(instances.items, COLUMNS, COLUMN_WIDTHS)

\* C18 witness: the run has ended after two regions whose instances were
\* normalised and whose tables were printed.
C18_Witness ==
    /\ pc = "done"
    /\ region_index = 2
    /\ \E l \in RegionLines(1) : stdout[l].kind = "row"
    /\ \E l \in RegionLines(2) : stdout[l].kind = "row"

\* C19: whenever print_table renders a region, every value of every record
\* is no longer than the tracked width of its column, so that every data
\* line printed is as long as the heading.
C19_ValuesFitWidths ==
    [][RendersTable =>
        /\ \A i \in 1..Len(instances.items) : \A c \in Range(COLUMNS) :
                Len(instances.items[i][c]) <= COLUMN_WIDTHS[c]
        /\ Len(stdout') = Len(stdout) + 3 + Len(instances.items)
        /\ \A l \in (Len(stdout) + 4)..Len(stdout') :
                /\ stdout'[l].kind = "row"
                /\ Len(stdout'[l].text) = Len(stdout'[Len(stdout) + 2].text)]_vars

\* C19 witness: a table of two rows has been printed in which one value
\* fills its column, wider than the column's name, and another value is
\* shorter than its column.
C19_Witness ==
    /\ pc = "for_region"
    /\ instances # None
    /\ Len(instances.items) = 2
    /\ stdout[Len(stdout)].kind = "row"
    /\ stdout[Len(stdout) - 1].kind = "row"
    /\ \E i \in 1..2 : \E c \in Range(COLUMNS) :
            /\ Len(instances.items[i][c]) = COLUMN_WIDTHS[c]
            /\ COLUMN_WIDTHS[c] > Len(c)
    /\ \E i \in 1..2 : \E c \in Range(COLUMNS) :
            Len(instances.items[i][c]) < COLUMN_WIDTHS[c]

\* the greatest element of a non-empty set of numbers
Greatest(S) == CHOOSE n \in S : \A m \in S : m <= n

\* the lengths of the values measured so far for a column
MeasuredLengths(column) == {Len(p[2]) : p \in {q \in measured : q[1] = column}}

\* the requests of the k-th region ended in a failure
RegionFailed(k) == \E i \in 1..Len(calls) : calls[i].index = k /\ ~calls[i].ok

\* C20: a region failure does not roll COLUMN_WIDTHS back: at every point the
\* width of each column is the maximum of the length of the column's name and
\* the lengths of all values normalised so far for that column, those of the
\* records discarded because their region failed later included.
C20_WidthsKeepDiscarded ==
    InitCompleted =>
        /\ DOMAIN COLUMN_WIDTHS = Range(COLUMNS)
        /\ \A c \in DOMAIN COLUMN_WIDTHS :
                COLUMN_WIDTHS[c] = Greatest({Len(c)} \cup MeasuredLengths(c))

\* C20 witness: the first region failed after its records had been measured,
\* the table of the second region has been printed, and one of its columns
\* is wider than its name and than every value in that table: it is padded
\* by a value that was never printed.
C20_Witness ==
    /\ pc = "for_region"
    /\ region_index = 2
    /\ RegionFailed(1)
    /\ instances # None
    /\ Len(instances.items) > 0
    /\ stdout[Len(stdout)].kind = "row"
    /\ \E c \in Range(COLUMNS) :
            /\ COLUMN_WIDTHS[c] > Len(c)
            /\ \A i \in 1..Len(instances.items) :
                    Len(instances.items[i][c]) < COLUMN_WIDTHS[c]

====
